---- MODULE Spec2Model ----
(***************************************************************************)
(* Model of the TaggedApi client of src/api-angular.js: the batching queue *)
(* (_queue), the flush timer (_batchTimeout), the flush (_postToApi,       *)
(* resetQueue), the response demultiplexer (parseResponseBody,             *)
(* resolveQueue, rejectQueue), the event hub (on) and the TTL cache of     *)
(* execute().                                                              *)
(*                                                                         *)
(* JavaScript runs each callback to completion, so every action below is   *)
(* one whole callback: a call of a public method by the host program, the  *)
(* firing of the flush timer, or the completion of one Transport exchange. *)
(*                                                                         *)
(* Arrays are heap objects.  _postToApi binds the array object `this._queue`*)
(* into the completion callbacks and resetQueue assigns a NEW array, so    *)
(* the model keeps a heap `arrays` and the reference `queueRef`.           *)
(***************************************************************************)
EXTENDS Integers, Sequences, FiniteSets, TLC

\* ------------------------------------------------------------------ bounds
MaxCalls == 3        \* CallRecords created over a run
MaxCacheCalls == 2   \* CallRecords created over a run of SpecCache
MaxQueueSize == 2    \* largest value given to setMaxQueueSize
MaxClock == 2        \* the wall clock runs over 0..MaxClock seconds
MaxSubs == 1         \* subscribers registered with on() over a run

\* ------------------------------------------------------- program constants
MsPerSec == 1000           \* config.cache is in seconds, Date.getTime in ms
Infinity == 1000000000     \* stands for the JavaScript value Infinity

\* ------------------------------------------------------------ input values
\* method arguments of execute() that pass its check (a non-empty string); the
\* others are the case of ExecuteInvalid
Methods == {"m"}

\* A parameter value is named by its kind: "s1" and "s2" two string
\* primitives, "fn" a function (typeof 'function'), "null" an explicit null,
\* "undef" undefined; a value that is a plain object (a nested mapping) is the
\* reference of that object in the heap, see Refs.
NoParams == [k \in {} |-> "s1"]
ParamsX1 == [k \in {"x"} |-> "s1"]
ParamsFn == [k \in {"x"} |-> "fn"]
ParamChoices == {NoParams, ParamsX1, ParamsFn}

\* config argument: no cache directive, a TTL in seconds, or cache === true
NoCache == [cache |-> "none", secs |-> 0]
ConfigChoices == {NoCache, [cache |-> "ttl", secs |-> 1], [cache |-> "true", secs |-> 0]}

\* tags given to on() and the subscriber kinds: one that returns, one that throws
Tags == {"ok", "error"}
Callbacks == {"returns", "throws"}

\* One element of the outer response array, named by what JSON.parse makes of
\* it: an object with stat 'ok', 'error' or '' (present but falsy), an object
\* without stat, or a string that is not JSON.  (A JSON null is read by
\* resolveQueue like an entry that is missing, see IsNullish.)
EntryKinds == {"ok", "error", "", "absent", "bad"}

\* Objects are heap cells, named by their reference: "params" is the object
\* this._options.params, "inst" a mapping nested in it by the options given to
\* the constructor, "litA" and "litB" mappings nested in the params of a call,
\* "fresh" the object `{}` that execute() creates for the merged params
Refs == {"params", "inst", "litA", "litB"}
IsRef(value) == value \in Refs \cup {"fresh"}

\* instance-level fixed params: this._options.params of `new TaggedApi(url, {})`
OptionsParams == [k \in {"track"} |-> "s1"]

\* this._options.params of `new TaggedApi(url, {params: {filter: {a: 's1'}}})`
OptionsNested == [k \in {"track", "filter"} |-> IF k = "track" THEN "s1" ELSE "inst"]

\* call params with an explicit null and with undefined: {x: null, y: undefined},
\* {x: undefined}, {x: null}
ParamsNullUndef == [k \in {"x", "y"} |-> IF k = "x" THEN "null" ELSE "undef"]
ParamsUndef == [k \in {"x"} |-> "undef"]
ParamsNull == [k \in {"x"} |-> "null"]
WireChoices == {ParamsX1, ParamsNullUndef, ParamsUndef, ParamsNull}

\* call params with a nested mapping: {filter: {a: 's2'}}, {filter: {b: 's1'}},
\* and with a key of the instance-level params: {track: 's2'}
ParamsFilterA == [k \in {"filter"} |-> "litA"]
ParamsFilterB == [k \in {"filter"} |-> "litB"]
ParamsTrack2 == [k \in {"track"} |-> "s2"]
MergeChoices == {NoParams, ParamsFilterA, ParamsFilterB, ParamsTrack2}

\* the heap after `new TaggedApi(url, options)` with instance-level params p
HeapOf(p) ==
    [r \in Refs |->
        CASE r = "params" -> p
          [] r = "inst" -> [k \in {"a"} |-> "s1"]
          [] r = "litA" -> [k \in {"a"} |-> "s2"]
          [] r = "litB" -> [k \in {"b"} |-> "s1"]]

VARIABLES
    records,        \* every CallRecord ever created; the record id is its index
    handles,        \* handles[id]: state and value of the promise of record id
    arrays,         \* heap of queue arrays: arrays[ref] is a sequence of record ids
    queueRef,       \* this._queue: reference to the current queue array
    maxQueueSize,   \* this._maxQueueSize, 0 for null
    batchTimeout,   \* this._batchTimeout: a timer id, 0 for null
    timers,         \* host: ids of the timers scheduled and neither fired nor cleared
    exchanges,      \* Transport: every post() made; the exchange id is its index
                    \* (with the subscriber calls made while its response was read)
    cache,          \* this._cache: cache key -> entry
    events,         \* this._events: tag -> sequence of subscribers
    now,            \* host: wall clock, in seconds
    lastReturn,     \* what the latest execute() gave back to its caller
    heap            \* the objects params may share: reference -> mapping

vars == <<records, handles, arrays, queueRef, maxQueueSize, batchTimeout, timers,
          exchanges, cache, events, now, lastReturn, heap>>

\* ------------------------------------------------------------- cache keys
\* JSON.stringify(params): a property whose value is a function or undefined
\* is left out of the text, an explicit null is written as null.  (Calls with
\* a cache directive are made with params of primitives only.)
JsonStringify(params) ==
    [k \in {j \in DOMAIN params : params[j] \notin {"fn", "undef"}} |-> params[k]]

\* method + ':' + JSON.stringify(params)
CacheKey(method, params) == <<method, JsonStringify(params)>>

CacheKeys == {CacheKey(m, p) : m \in Methods, p \in ParamChoices}

NoEntry == [expires |-> -1, promise |-> 0]

\* new Date().getTime()
GetTime == now * MsPerSec

\* ------------------------------------------------------------ merge, wire
\* obj1[p] = value, on the heap object r1
SetKey(h, r1, p, value) ==
    [h EXCEPT ![r1] = [k \in DOMAIN h[r1] \cup {p} |-> IF k = p THEN value ELSE h[r1][k]]]

\* The loop of mergeRecursive(obj1, obj2) over the keys `todo` of obj2, obj1
\* being the heap object r1; it changes obj1 in place.  For a value of obj2
\* that is a plain object, obj1[p] = mergeRecursive(obj1[p], obj2[p]):
\*   - obj2[p] has no key: the inner call returns obj1[p] as it is (undefined
\*     when obj1 has no p);
\*   - obj1[p] is an object: the inner call merges obj2[p] INTO that object;
\*   - obj1[p] is undefined or a primitive: the inner call throws a TypeError
\*     (strict mode), also from its catch block, and the outer catch block
\*     stores obj2[p] itself.
\* Every other value is stored as it is (null and undefined by the catch block).
RECURSIVE MergeKeys(_, _, _, _)
MergeKeys(h, r1, obj2, todo) ==
    IF todo = {} THEN h
    ELSE LET p == CHOOSE k \in todo : TRUE
             value == obj2[p]
             cur == IF p \in DOMAIN h[r1] THEN h[r1][p] ELSE "undef"
             h1 == IF IsRef(value)
                   THEN IF DOMAIN h[value] = {} THEN SetKey(h, r1, p, cur)
                        ELSE IF IsRef(cur)
                        THEN SetKey(MergeKeys(h, cur, h[value], DOMAIN h[value]), r1, p, cur)
                        ELSE SetKey(h, r1, p, value)
                   ELSE SetKey(h, r1, p, value)
         IN  MergeKeys(h1, r1, obj2, todo \ {p})

\* mergeRecursive(obj1, obj2): returns obj1, changed in place
mergeRecursive(h, r1, obj2) == MergeKeys(h, r1, obj2, DOMAIN obj2)

\* var _params = mergeRecursive({}, this._options.params);
\* params: mergeRecursive(_params, params || {})
\* gives the params of the record and the heap the two merges leave
MergedParams(h, params) ==
    LET h0 == [r \in Refs \cup {"fresh"} |-> IF r = "fresh" THEN NoParams ELSE h[r]]
        h1 == mergeRecursive(h0, "fresh", h0["params"])
        h2 == mergeRecursive(h1, "fresh", params)
    IN  [params |-> h2["fresh"], heap |-> [r \in Refs |-> h2[r]]]

\* parameterize(key, value) throws for every typeof outside string, number,
\* boolean, undefined, object
ParameterizeThrows(value) == value = "fn"

\* stringifyCall(call) throws when parameterize throws for one of its params
\* (null values are skipped before parameterize is called)
StringifyCallThrows(call) ==
    \E k \in DOMAIN call.params :
        call.params[k] # "null" /\ ParameterizeThrows(call.params[k])

\* stringifyCall without its `null !== call.params[key]` test: parameterize is
\* called for a null value too, and parameterizePrimitive writes key=null
stringifyCallKeepNull(call, h) ==
    [method |-> call.method,
     pairs |-> {<<k, IF call.params[k] = "undef" THEN "" ELSE call.params[k]>> :
                  k \in {j \in DOMAIN call.params : ~IsRef(call.params[j])}}
               \cup UNION {{<<k, subkey, h[call.params[k]][subkey]>> :
                              subkey \in DOMAIN h[call.params[k]]} :
                            k \in {j \in DOMAIN call.params : IsRef(call.params[j])}}]

\* stringifyCall(call): the line of a call, as its method and the set of the
\* pairs written: key=value for a primitive (null values are left out,
\* undefined is written as the empty value), key[subkey]=value for every
\* entry of a nested mapping, read in the heap h when the line is written
stringifyCall(call, h) ==
    [method |-> call.method,
     pairs |-> {<<k, IF call.params[k] = "undef" THEN "" ELSE call.params[k]>> :
                  k \in {j \in DOMAIN call.params :
                            call.params[j] # "null" /\ ~IsRef(call.params[j])}}
               \cup UNION {{<<k, subkey, h[call.params[k]][subkey]>> :
                              subkey \in DOMAIN h[call.params[k]]} :
                            k \in {j \in DOMAIN call.params : IsRef(call.params[j])}}]

\* stringifyQueue(queue): one line per call, in queue order
StringifyQueueThrows(recs, queue) ==
    \E i \in 1..Len(queue) : StringifyCallThrows(recs[queue[i]])

stringifyQueue(recs, queue, h) ==
    [i \in 1..Len(queue) |-> stringifyCall(recs[queue[i]], h)]

\* ------------------------------------------------------------ promises
Pending == [state |-> "pending", kind |-> "none", stat |-> "", x |-> 0, k |-> 0]

\* the values a handle is settled with
EntryValue(x, k, stat) == [kind |-> "entry", stat |-> stat, x |-> x, k |-> k]
SynthValue == [kind |-> "synth", stat |-> "ok", x |-> 0, k |-> 0]
ErrorValue(what, x) == [kind |-> "error", stat |-> what, x |-> x, k |-> 0]

\* deferred.resolve(value) / deferred.reject(value): a promise settles once,
\* later calls are ignored
Settle(hs, id, state, value) ==
    IF hs[id].state = "pending"
    THEN [hs EXCEPT ![id] = [state |-> state, kind |-> value.kind, stat |-> value.stat,
                            x |-> value.x, k |-> value.k]]
    ELSE hs

\* ------------------------------------------------------------ the flush
\* The part of the instance that execute() and _postToApi change together
Core == [arrays |-> arrays, queueRef |-> queueRef, batchTimeout |-> batchTimeout,
         timers |-> timers, exchanges |-> exchanges, heap |-> heap,
         threw |-> FALSE]

Queue(s) == s.arrays[s.queueRef]

\* resetQueue() without its clearTimeout: the timer stays scheduled
ResetQueueKeepTimer(s) ==
    [s EXCEPT !.batchTimeout = 0,
              !.arrays = Append(s.arrays, <<>>),
              !.queueRef = Len(s.arrays) + 1]

\* resetQueue() without its `this._queue = []`: the array just posted stays the
\* queue, with its calls in it
ResetQueueSameArray(s) ==
    [s EXCEPT !.timers = s.timers \ {s.batchTimeout},
              !.batchTimeout = 0]

\* resetQueue(): clearTimeout of the pending timer, _batchTimeout = null and a
\* NEW empty array for _queue (the old array object is left as it is)
resetQueue(s) ==
    [s EXCEPT !.timers = s.timers \ {s.batchTimeout},
              !.batchTimeout = 0,
              !.arrays = Append(s.arrays, <<>>),
              !.queueRef = Len(s.arrays) + 1]

\* this._http.post({body: ...}).then(parseResponseBody)
\*     .then(resolveQueue.bind(this, this._queue))
\*     .catch(rejectQueue.bind(this, this._queue)):
\* the Transport gets the body, the callbacks keep the queue array object
HttpPost(s, body) ==
    [s EXCEPT !.exchanges = Append(s.exchanges,
                  [q |-> s.queueRef, body |-> body, state |-> "inflight",
                   type |-> "none", entries |-> <<>>, notified |-> <<>>])]

\* _postToApi(): stringifyQueue first (an exception leaves the method before
\* anything is posted or reset), then the post, then resetQueue
postToApi(recs, s) ==
    IF StringifyQueueThrows(recs, Queue(s))
    THEN [s EXCEPT !.threw = TRUE]
    ELSE resetQueue(HttpPost(s, stringifyQueue(recs, Queue(s), s.heap)))

\* this._queue.push(record)
Push(s, id) == [s EXCEPT !.arrays[s.queueRef] = Append(@, id)]

\* this._maxQueueSize && this._queue.length >= this._maxQueueSize
FlushNow(maxQ, len) == maxQ # 0 /\ len >= maxQ

\* null === this._batchTimeout
NoTimerPending(bt) == bt = 0

\* this._batchTimeout = setTimeout(this._postToApi.bind(this), 1): the host
\* gives every timer a fresh id, here the id of the record whose execute()
\* schedules it
ScheduleTimer(s, id) ==
    [s EXCEPT !.batchTimeout = id, !.timers = s.timers \cup {id}]

\* The executor of execute()'s promise: push, then flush now or schedule
Enqueue(recs, s, id, maxQ) ==
    LET pushed == Push(s, id)
    IN  IF FlushNow(maxQ, Len(Queue(pushed)))
        THEN postToApi(recs, pushed)
        ELSE IF NoTimerPending(pushed.batchTimeout)
             THEN ScheduleTimer(pushed, id)
             ELSE pushed

\* ------------------------------------------------------------ the cache
\* cache.expires >= now: an entry is still served at the instant it expires
CacheLiveAtExpiry(entry, t) == entry.expires >= t

\* cache.expires > now
CacheLive(entry, t) == entry.expires > t

\* The sweep with its test the wrong way round: delete every entry with expires > now
SweepLive(c, t) ==
    [key \in DOMAIN c |-> IF c[key] # NoEntry /\ c[key].expires > t THEN NoEntry ELSE c[key]]

\* The sweep: delete every entry with expires < now
Sweep(c, t) ==
    [key \in DOMAIN c |-> IF c[key] # NoEntry /\ c[key].expires < t THEN NoEntry ELSE c[key]]

\* (config.cache === true) ? Infinity : (now + (config.cache * 1000))
Expires(config, t) ==
    IF config.cache = "true" THEN Infinity ELSE t + config.secs * MsPerSec

\* What execute() returns on a cache hit
HitReturn(entry) == [kind |-> "entry", id |-> entry.promise, expires |-> entry.expires]

PromiseReturn(id) == [kind |-> "promise", id |-> id, expires |-> 0]
NoReturn == [kind |-> "none", id |-> 0, expires |-> 0]
Threw == [kind |-> "threw", id |-> 0, expires |-> 0]

\* ------------------------------------------------------------ the demultiplexer
\* The responses the Transport may complete an exchange of n calls with: a
\* failure, a body that is not JSON, or a JSON array of up to n strings (an
\* array longer than the batch is read like its first n strings)
Responses(n) ==
    {[type |-> "fail", entries |-> <<>>], [type |-> "badouter", entries |-> <<>>]}
    \cup {[type |-> "array", entries |-> e] :
            e \in UNION {[1..len -> EntryKinds] : len \in 0..n}}

\* parseResponseBody(response) throws: JSON.parse of the body or of one of
\* the strings of the array fails
ParseThrows(resp) ==
    \/ resp.type = "badouter"
    \/ \E i \in 1..Len(resp.entries) : resp.entries[i] = "bad"

\* results[i] of resolveQueue, with the index it was read at; "undefined"
\* past the end of the array
ResultAt(results, i) ==
    IF i <= Len(results) THEN [raw |-> results[i], k |-> i]
    ELSE [raw |-> "undefined", k |-> 0]

\* result == null (null or undefined): the synthesized {result: null, stat: 'ok'}
IsNullish(raw) == raw \in {"null", "undefined"}

\* result.stat as a condition: a stat that is absent or '' is falsy
StatTruthy(stat) == stat \notin {"", "absent"}

\* result.stat && result.stat !== 'ok'
IsRejected(stat) == StatTruthy(stat) /\ stat # "ok"

\* for (var b in this._events[result.stat]) this._events[result.stat][b](queue[i], result):
\* the subscribers are called in index order up to the first one that throws;
\* each call is written down with its tag, its index b, the record and the
\* result it was given, and whether the record's handle was still pending
Notify(subs, tag, id, value, pending) ==
    LET throwers == {b \in 1..Len(subs) : subs[b] = "throws"}
        last == IF throwers = {} THEN Len(subs)
                ELSE CHOOSE b \in throwers : \A c \in throwers : b <= c
    IN  [b \in 1..last |-> [tag |-> tag, b |-> b, id |-> id, kind |-> value.kind,
                            k |-> value.k, pending |-> pending]]

\* One turn of the loop of resolveQueue for index i, then the following turns.
\* A subscriber that throws ends the loop: threw is TRUE and nothing from
\* index i on has been settled.
RECURSIVE ResolveFrom(_, _, _, _, _, _, _)
ResolveFrom(hs, queue, results, x, evts, notes, i) ==
    IF i > Len(queue) THEN [hs |-> hs, threw |-> FALSE, notes |-> notes]
    ELSE LET at == ResultAt(results, i)
             stat == IF IsNullish(at.raw) THEN "ok" ELSE at.raw
             value == IF IsNullish(at.raw) THEN SynthValue ELSE EntryValue(x, at.k, stat)
             subs == IF StatTruthy(stat) /\ stat \in DOMAIN evts THEN evts[stat] ELSE <<>>
             told == notes \o Notify(subs, stat, queue[i], value,
                                     hs[queue[i]].state = "pending")
         IN  IF \E b \in 1..Len(subs) : subs[b] = "throws"
             THEN [hs |-> hs, threw |-> TRUE, notes |-> told]
             ELSE ResolveFrom(
                      Settle(hs, queue[i],
                             IF IsRejected(stat) THEN "rejected" ELSE "resolved", value),
                      queue, results, x, evts, told, i + 1)

resolveQueue(hs, queue, results, x, evts) ==
    ResolveFrom(hs, queue, results, x, evts, <<>>, 1)

\* rejectQueue(queue, error): reject every record of the queue with error
RECURSIVE RejectFrom(_, _, _, _)
RejectFrom(hs, queue, error, i) ==
    IF i > Len(queue) THEN hs
    ELSE RejectFrom(Settle(hs, queue[i], "rejected", error), queue, error, i + 1)

\* rejectQueue leaving its loop after the first record
RejectFirstOnly(hs, queue, error) ==
    IF Len(queue) = 0 THEN hs ELSE Settle(hs, queue[1], "rejected", error)

rejectQueue(hs, queue, error) == RejectFrom(hs, queue, error, 1)

\* The promise chain of _postToApi run on the response of exchange x:
\* .then(parseResponseBody).then(resolveQueue).catch(rejectQueue)
Demultiplex(hs, queue, resp, x, evts) ==
    IF resp.type = "fail"
    THEN [hs |-> rejectQueue(hs, queue, ErrorValue("transport", x)), notes |-> <<>>]
    ELSE IF ParseThrows(resp)
    THEN [hs |-> rejectQueue(hs, queue, ErrorValue("parse", x)), notes |-> <<>>]
    ELSE LET r == resolveQueue(hs, queue, resp.entries, x, evts)
         IN  [hs |-> IF r.threw THEN rejectQueue(r.hs, queue, ErrorValue("subscriber", x))
                     ELSE r.hs,
              notes |-> r.notes]

\* ------------------------------------------------------------ actions
Init ==
    /\ records = <<>>
    /\ handles = <<>>
    /\ arrays = << <<>> >>
    /\ queueRef = 1
    /\ maxQueueSize = 0
    /\ batchTimeout = 0
    /\ timers = {}
    /\ exchanges = <<>>
    /\ cache = [key \in CacheKeys |-> NoEntry]
    /\ events = [tag \in Tags |-> <<>>]
    /\ now = 0
    /\ lastReturn = NoReturn
    /\ heap = HeapOf(OptionsParams)

SetCore(s) ==
    /\ heap' = s.heap
    /\ arrays' = s.arrays
    /\ queueRef' = s.queueRef
    /\ batchTimeout' = s.batchTimeout
    /\ timers' = s.timers
    /\ exchanges' = s.exchanges

\* setMaxQueueSize(n)
SetMaxQueueSize(n) ==
    /\ maxQueueSize' = n
    /\ lastReturn' = NoReturn
    /\ UNCHANGED <<records, handles, arrays, queueRef, batchTimeout, timers, exchanges,
                   cache, events, now, heap>>

\* on(stat, callback)
On(tag, callback) ==
    /\ Len(events["ok"]) + Len(events["error"]) < MaxSubs
    /\ events' = [events EXCEPT ![tag] = Append(@, callback)]
    /\ lastReturn' = NoReturn
    /\ UNCHANGED <<records, handles, arrays, queueRef, maxQueueSize, batchTimeout, timers,
                   exchanges, cache, now, heap>>

\* execute() with the method check made after the push: the record is queued,
\* then the error is thrown
ExecuteInvalidAfterPush ==
    /\ Len(records) < MaxCalls
    /\ records' = Append(records, [method |-> "", params |-> OptionsParams])
    /\ handles' = Append(handles, Pending)
    /\ arrays' = [arrays EXCEPT ![queueRef] = Append(@, Len(records) + 1)]
    /\ lastReturn' = Threw
    /\ UNCHANGED <<queueRef, maxQueueSize, batchTimeout, timers, exchanges, cache,
                   events, now, heap>>

\* execute(method, ...) with a method that is empty or not a string: throws
ExecuteInvalid ==
    /\ lastReturn' = Threw
    /\ UNCHANGED <<records, handles, arrays, queueRef, maxQueueSize, batchTimeout, timers,
                   exchanges, cache, events, now, heap>>

\* config && config.cache, and the lookup of the cache c finds a live entry
ExecuteHit(method, params, config, c) ==
    /\ config.cache # "none"
    /\ c[CacheKey(method, params)] # NoEntry
    /\ CacheLive(c[CacheKey(method, params)], GetTime)

\* this._cache when execute() returns, c being the cache at the lookup: on a
\* hit as it was; else an entry found expired is deleted and, with a cache
\* directive, the entry of the new promise is stored
ExecuteCache(method, params, config, c) ==
    LET key == CacheKey(method, params)
    IN  IF ExecuteHit(method, params, config, c) \/ config.cache = "none" THEN c
        ELSE [c EXCEPT ![key] = [expires |-> Expires(config, GetTime),
                                 promise |-> Len(records) + 1]]

\* What execute() does besides to this._cache, c being the cache at the lookup
ExecuteEffect(method, params, config, c) ==
    LET id == Len(records) + 1
        merged == MergedParams(heap, params)
        record == [method |-> method, params |-> merged.params]
        recs == Append(records, record)
        s == Enqueue(recs, [Core EXCEPT !.heap = merged.heap], id, maxQueueSize)
    IN  IF ExecuteHit(method, params, config, c)
        THEN /\ lastReturn' = HitReturn(c[CacheKey(method, params)])
             /\ UNCHANGED <<records, handles, arrays, queueRef, maxQueueSize, batchTimeout,
                            timers, exchanges, events, now, heap>>
        ELSE /\ Len(records) < MaxCalls
             /\ records' = recs
             \* an exception in the executor rejects the promise just created
             /\ handles' = IF s.threw
                           THEN Append(handles, [Pending EXCEPT !.state = "rejected",
                                                    !.kind = "error", !.stat = "encode"])
                           ELSE Append(handles, Pending)
             /\ SetCore(s)
             /\ lastReturn' = PromiseReturn(id)
             /\ UNCHANGED <<maxQueueSize, events, now>>

\* execute(method, params, config); sweep says whether Math.random() > 0.99
Execute(method, params, config, sweep) ==
    LET swept == IF sweep THEN Sweep(cache, GetTime) ELSE cache
    IN  /\ ExecuteEffect(method, params, config, swept)
        /\ cache' = ExecuteCache(method, params, config, swept)

\* The flush timer fires: the host runs this._postToApi
TimerFire(timer) ==
    /\ timer \in timers
    /\ SetCore(postToApi(records, [Core EXCEPT !.timers = timers \ {timer}]))
    /\ lastReturn' = NoReturn
    /\ UNCHANGED <<records, handles, maxQueueSize, cache, events, now>>

\* The Transport completes exchange x with resp
ExchangeComplete(x, resp) ==
    /\ exchanges[x].state = "inflight"
    /\ handles' = Demultiplex(handles, arrays[exchanges[x].q], resp, x, events).hs
    /\ exchanges' = [exchanges EXCEPT
                        ![x].state = IF resp.type = "fail" \/ ParseThrows(resp)
                                     THEN "failed" ELSE "parsed",
                        ![x].type = resp.type,
                        ![x].entries = resp.entries,
                        ![x].notified =
                            Demultiplex(handles, arrays[exchanges[x].q], resp, x, events).notes]
    /\ lastReturn' = NoReturn
    /\ UNCHANGED <<records, arrays, queueRef, maxQueueSize, batchTimeout, timers, cache,
                   events, now, heap>>

\* The wall clock advances
Tick ==
    /\ now < MaxClock
    /\ now' = now + 1
    /\ lastReturn' = NoReturn
    /\ UNCHANGED <<records, handles, arrays, queueRef, maxQueueSize, batchTimeout, timers,
                   exchanges, cache, events, heap>>

\* ------------------------------------------------------------ specifications
\* Transport responses that differ only in the whole-exchange outcome
PlainResponses(n) ==
    {[type |-> "fail", entries |-> <<>>],
     [type |-> "array", entries |-> [i \in 1..n |-> "ok"]]}

Next ==
    \/ \E n \in 0..MaxQueueSize : SetMaxQueueSize(n)
    \/ \E tag \in Tags, callback \in Callbacks : On(tag, callback)
    \/ ExecuteInvalid
    \/ \E method \in Methods, params \in ParamChoices, config \in ConfigChoices,
          sweep \in BOOLEAN : Execute(method, params, config, sweep)
    \/ \E timer \in timers : TimerFire(timer)
    \/ \E x \in 1..Len(exchanges) :
          \E resp \in Responses(Len(arrays[exchanges[x].q])) : ExchangeComplete(x, resp)
    \/ Tick

Spec == Init /\ [][Next]_vars

\* The queue and its flushes: every call without a cache directive
NextBatch ==
    \/ \E n \in 0..MaxQueueSize : SetMaxQueueSize(n)
    \/ ExecuteInvalid
    \/ \E method \in Methods, params \in ParamChoices :
          Execute(method, params, NoCache, FALSE)
    \/ \E timer \in timers : TimerFire(timer)
    \/ \E x \in 1..Len(exchanges) :
          \E resp \in PlainResponses(Len(arrays[exchanges[x].q])) : ExchangeComplete(x, resp)

SpecBatch == Init /\ [][NextBatch]_vars

\* The demultiplexer: every response, every subscriber
NextDemux ==
    \/ \E tag \in Tags, callback \in Callbacks : On(tag, callback)
    \/ \E method \in Methods, params \in {NoParams, ParamsFn} :
          Execute(method, params, NoCache, FALSE)
    \/ \E timer \in timers : TimerFire(timer)
    \/ \E x \in 1..Len(exchanges) :
          \E resp \in Responses(Len(arrays[exchanges[x].q])) : ExchangeComplete(x, resp)

SpecDemux == Init /\ [][NextDemux]_vars

\* The cache: every cache directive, the clock and the sweep
NextCache ==
    \/ \E method \in Methods, params \in ParamChoices, config \in ConfigChoices,
          sweep \in BOOLEAN :
            Execute(method, params, config, sweep) /\ Len(records') <= MaxCacheCalls
    \/ \E timer \in timers : TimerFire(timer)
    \/ \E x \in 1..Len(exchanges) :
          \E resp \in PlainResponses(Len(arrays[exchanges[x].q])) : ExchangeComplete(x, resp)
    \/ Tick

SpecCache == Init /\ [][NextCache]_vars

\* The wire lines: calls with null and undefined values
NextWire ==
    \/ \E n \in 0..MaxQueueSize : SetMaxQueueSize(n)
    \/ \E method \in Methods, params \in WireChoices :
          Execute(method, params, NoCache, FALSE)
    \/ \E timer \in timers : TimerFire(timer)
    \/ \E x \in 1..Len(exchanges) :
          \E resp \in PlainResponses(Len(arrays[exchanges[x].q])) : ExchangeComplete(x, resp)

SpecWire == Init /\ [][NextWire]_vars

\* The cache lookups and the sweep, for calls the encoder accepts
CacheParams == {NoParams, ParamsX1}

NextSweep ==
    \/ \E method \in Methods, params \in CacheParams, config \in ConfigChoices,
          sweep \in BOOLEAN :
            Execute(method, params, config, sweep) /\ Len(records') <= MaxCacheCalls
    \/ \E timer \in timers : TimerFire(timer)
    \/ \E x \in 1..Len(exchanges) :
          \E resp \in PlainResponses(Len(arrays[exchanges[x].q])) : ExchangeComplete(x, resp)
    \/ Tick

SpecSweep == Init /\ [][NextSweep]_vars

\* The cache and the outcomes: cached calls, every response of the Transport
NextOutcome ==
    \/ \E method \in Methods, params \in CacheParams, config \in ConfigChoices,
          sweep \in BOOLEAN :
            Execute(method, params, config, sweep) /\ Len(records') <= MaxCacheCalls
    \/ \E timer \in timers : TimerFire(timer)
    \/ \E x \in 1..Len(exchanges) :
          \E resp \in Responses(Len(arrays[exchanges[x].q])) : ExchangeComplete(x, resp)
    \/ Tick

SpecOutcome == Init /\ [][NextOutcome]_vars

\* Calls with and without a valid method, over the queue, the timer and the cache
NextValidate ==
    \/ ExecuteInvalid
    \/ \E method \in Methods, params \in {NoParams, ParamsX1},
          config \in ConfigChoices :
            Execute(method, params, config, FALSE) /\ Len(records') <= MaxCacheCalls
    \/ \E timer \in timers : TimerFire(timer)
    \/ \E x \in 1..Len(exchanges) :
          \E resp \in PlainResponses(Len(arrays[exchanges[x].q])) : ExchangeComplete(x, resp)
    \/ Tick

SpecValidate == Init /\ [][NextValidate]_vars

\* The merge of the params: an instance constructed with a nested mapping in
\* its fixed params, calls with nested mappings and with colliding keys
InitMerge ==
    /\ records = <<>>
    /\ handles = <<>>
    /\ arrays = << <<>> >>
    /\ queueRef = 1
    /\ maxQueueSize = 0
    /\ batchTimeout = 0
    /\ timers = {}
    /\ exchanges = <<>>
    /\ cache = [key \in CacheKeys |-> NoEntry]
    /\ events = [tag \in Tags |-> <<>>]
    /\ now = 0
    /\ lastReturn = NoReturn
    /\ heap = HeapOf(OptionsNested)

NextMerge ==
    \/ \E method \in Methods, params \in MergeChoices :
          Execute(method, params, NoCache, FALSE)
    \/ \E timer \in timers : TimerFire(timer)
    \/ \E x \in 1..Len(exchanges) :
          \E resp \in PlainResponses(Len(arrays[exchanges[x].q])) : ExchangeComplete(x, resp)

SpecMerge == InitMerge /\ [][NextMerge]_vars

\* The queue and its flushes when the host runs every callback that is due: a
\* scheduled flush timer fires (setTimeout of 1 ms) and the Transport completes
\* every exchange (post() settles its promise, by success or by failure)
SpecLive ==
    /\ Init /\ [][NextBatch]_vars
    /\ WF_vars(\E timer \in timers : TimerFire(timer))
    /\ WF_vars(\E x \in 1..Len(exchanges) :
                  \E resp \in PlainResponses(Len(arrays[exchanges[x].q])) :
                      ExchangeComplete(x, resp))

\* ------------------------------------------------------------ claims
\* the ids of the records of a queue array, as a set
Members(queue) == {queue[i] : i \in 1..Len(queue)}

\* the exchanges the Transport has not completed yet
InFlight == {x \in 1..Len(exchanges) : exchanges[x].state = "inflight"}

\* the batch of exchange x: the array object bound into its callbacks
Batch(x) == arrays[exchanges[x].q]

\* A step in which the host fires the flush timer: a timer leaves the host's
\* set and no execute() ran (execute() is the only other code that clears one)
TimerFired == timers' # timers /\ records' = records

\* A step in which execute() created a CallRecord
Enqueued == Len(records') = Len(records) + 1

\* the encoder accepts the call of record id
Encodable(recs, id) == ~StringifyCallThrows(recs[id])

\* C1: when the deferred flush runs on a queue that holds at least one call the
\* encoder accepts, exactly one batch is handed to the Transport, and it
\* carries all the calls made since the previous flush (the whole queue), one
\* line per call, in enqueue order.
C1_OneBatchPerTick ==
    [][(TimerFired /\ \E id \in Members(arrays[queueRef]) : Encodable(records, id)) =>
          /\ Len(exchanges') = Len(exchanges) + 1
          /\ arrays'[exchanges'[Len(exchanges')].q] = arrays[queueRef]
          /\ exchanges'[Len(exchanges')].body =
                 [i \in 1..Len(arrays[queueRef]) |->
                     stringifyCall(records[arrays[queueRef][i]], heap)]
      ]_vars

\* C2: with a maximum queue size N configured, after every execute() that
\* appended the record of a call the encoder accepts, the queue holds fewer
\* than N records.
C2_QueueBelowMaxAfterExecute ==
    [][(Enqueued /\ maxQueueSize > 0 /\ Encodable(records', Len(records'))) =>
          Len(arrays'[queueRef']) < maxQueueSize]_vars

\* the exchanges whose response was parsed, and those that failed wholesale
Parsed == {x \in 1..Len(exchanges) : exchanges[x].state = "parsed"}
Failed == {x \in 1..Len(exchanges) : exchanges[x].state = "failed"}

\* the handle of the i-th call of the batch of exchange x
HandleAt(x, i) == handles[Batch(x)[i]]

\* the handle was settled with the object parsed from entry k of the response
\* of exchange x
SettledWithEntry(h, x, k) ==
    h.state # "pending" /\ h.kind = "entry" /\ h.x = x /\ h.k = k

\* C3: for every batch whose response was parsed and every index i that has an
\* entry, the handle of the i-th call is settled with entry i of the response
\* of that batch's exchange; and no handle anywhere carries an entry of another
\* index or of another batch.
C3_PositionalCorrectness ==
    /\ \A x \in Parsed : \A i \in 1..Len(Batch(x)) :
          i <= Len(exchanges[x].entries) => SettledWithEntry(HandleAt(x, i), x, i)
    /\ \A id \in 1..Len(handles) :
          handles[id].kind = "entry" =>
              /\ handles[id].x \in Parsed
              /\ handles[id].k \in 1..Len(Batch(handles[id].x))
              /\ Batch(handles[id].x)[handles[id].k] = id

\* the stat of an entry is present (the entry is an object that has a stat)
StatPresent(entry) == entry # "absent"

\* C4: when the response was parsed, the call at an index that has an entry is
\* rejected if and only if that entry's stat is present and not 'ok', and in
\* both cases it is settled with its own result object.
C4_ErrorIsolation ==
    \A x \in Parsed : \A i \in 1..Len(Batch(x)) :
        i <= Len(exchanges[x].entries) =>
            LET entry == exchanges[x].entries[i]
            IN  /\ HandleAt(x, i).state =
                      (IF StatPresent(entry) /\ entry # "ok" THEN "rejected" ELSE "resolved")
                /\ SettledWithEntry(HandleAt(x, i), x, i)

\* the error value every call of a batch that failed wholesale is rejected with
FailureOf(x) ==
    ErrorValue(IF exchanges[x].type = "fail" THEN "transport" ELSE "parse", x)

RejectedWith(h, error) ==
    /\ h.state = "rejected"
    /\ h.kind = error.kind /\ h.stat = error.stat /\ h.x = error.x /\ h.k = error.k

\* C5: when the exchange of a batch failed wholesale (the Transport failed, or
\* the body or one of its strings is not JSON), every call of that batch is
\* rejected with the one error value of that exchange (so none is resolved),
\* and a call that carries the failure of an exchange is a call of its batch.
C5_WholesaleFailureRejectsAll ==
    /\ \A x \in Failed : \A i \in 1..Len(Batch(x)) :
          RejectedWith(HandleAt(x, i), FailureOf(x))
    /\ \A id \in 1..Len(handles) :
          (handles[id].kind = "error" /\ handles[id].stat \in {"transport", "parse"}) =>
              /\ handles[id].x \in Failed
              /\ id \in Members(Batch(handles[id].x))

\* C5 is reached: a batch of two calls whose second string is not JSON, after
\* a first string that is, has failed while another exchange was parsed
C5_Witness ==
    \E x \in Failed : \E y \in Parsed :
        /\ Len(Batch(x)) >= 2
        /\ exchanges[x].type = "array"
        /\ Len(exchanges[x].entries) >= 2
        /\ exchanges[x].entries[1] = "ok"
        /\ exchanges[x].entries[2] = "bad"
        /\ Len(Batch(y)) >= 1
        /\ handles[Batch(y)[1]].state = "resolved"

\* C6: when the parsed response is shorter than the batch, every index without
\* an entry is resolved with the synthesized {result: null, stat: 'ok'}, and
\* the indices that have an entry are settled by their own entry.
C6_MissingEntryResolved ==
    \A x \in Parsed : \A i \in 1..Len(Batch(x)) :
        IF i > Len(exchanges[x].entries)
        THEN HandleAt(x, i).state = "resolved" /\ HandleAt(x, i).kind = "synth"
        ELSE SettledWithEntry(HandleAt(x, i), x, i)

\* A step in which execute() returned to its caller
Returned == lastReturn'.kind \in {"promise", "entry"}

\* the entry of key is unexpired at the clock's instant: expiresAt > now
Unexpired(key) == cache[key] # NoEntry /\ cache[key].expires > now * MsPerSec

\* nothing was enqueued, scheduled or sent in the step
NothingEnqueued ==
    /\ records' = records
    /\ arrays' = arrays
    /\ timers' = timers
    /\ exchanges' = exchanges

\* the exchanges that carry record id
Carriers(id) == {x \in 1..Len(exchanges) : id \in Members(Batch(x))}

\* nothing is scheduled or in flight: without a further call, nothing more happens
Quiescent == timers = {} /\ InFlight = {}

\* C7: a call made with a cache duration while the entry of its signature is
\* unexpired enqueues no record and causes no exchange; one made when there is
\* no unexpired entry enqueues a new record, which the entry then refers to;
\* and the record of an entry, when the encoder accepts its call, is carried by
\* exactly one exchange: never by two, and by one once nothing is scheduled or
\* in flight any more.
C7_CacheSingleExchange ==
    /\ [][\A method \in Methods, params \in ParamChoices,
             config \in ConfigChoices \ {NoCache}, sweep \in BOOLEAN :
             Execute(method, params, config, sweep) =>
                 LET key == CacheKey(method, params)
                 IN  IF Unexpired(key) THEN NothingEnqueued
                     ELSE /\ Enqueued
                          /\ cache'[key].promise = Len(records')
                          /\ Carriers(Len(records')) \subseteq {Len(exchanges')}
         ]_vars
    /\ [](\A key \in CacheKeys :
             cache[key] # NoEntry =>
                 /\ Cardinality(Carriers(cache[key].promise)) <= 1
                 /\ (Quiescent /\ Encodable(records, cache[key].promise)) =>
                        Cardinality(Carriers(cache[key].promise)) = 1)

\* C8: on a cache hit (execute() returns without creating a record), the value
\* returned is the result handle of the unexpired entry, the one execute()
\* returned to the call that created it.
C8_HitReturnsSharedHandle ==
    [][(Returned /\ records' = records) =>
          \E key \in CacheKeys :
              Unexpired(key) /\ lastReturn' = PromiseReturn(cache[key].promise)]_vars

\* A step in which a batch was handed to the Transport
Posted == Len(exchanges') = Len(exchanges) + 1

\* C9: at a flush the queued records become the batch of the new exchange, the
\* queue becomes empty and no other batch changes; the batch of an exchange
\* stays what was sent (nothing is appended to it) and is not the queue; the
\* calls in the queue are later calls than those of every batch and no handle
\* of theirs is settled by it; and a call the encoder accepts, enqueued while
\* an exchange is in flight, is sent in a later exchange: it is never left in
\* the queue with no flush scheduled.
C9_AtomicHandOff ==
    /\ [][Posted =>
             LET x == Len(exchanges')
                 old == IF Enqueued THEN Append(arrays[queueRef], Len(records'))
                        ELSE arrays[queueRef]
             IN  /\ arrays'[exchanges'[x].q] = old
                 /\ queueRef' # exchanges'[x].q
                 /\ arrays'[queueRef'] = <<>>
                 /\ \A y \in 1..Len(exchanges) :
                       arrays'[exchanges'[y].q] = arrays[exchanges[y].q]
         ]_vars
    /\ [](\A x \in 1..Len(exchanges) :
             /\ exchanges[x].q # queueRef
             /\ Len(Batch(x)) = Len(exchanges[x].body)
             /\ \A id \in Members(arrays[queueRef]) :
                   /\ \A other \in Members(Batch(x)) : other < id
                   /\ handles[id].x # x)
    /\ []((InFlight # {} /\ timers = {}) =>
              \A id \in Members(arrays[queueRef]) : ~Encodable(records, id))

\* C10: at most one flush timer is scheduled; a scheduled timer is the one
\* this._batchTimeout names, and the call that scheduled it is still in the
\* queue (so it is no stale timer of an earlier queue); an execute() made while
\* a timer is pending schedules no other one; and an execute() that flushes
\* synchronously leaves no timer scheduled.
C10_AtMostOneTimer ==
    /\ [](/\ Cardinality(timers) <= 1
          /\ \A timer \in timers :
                timer = batchTimeout /\ timer \in Members(arrays[queueRef]))
    /\ [][(Enqueued /\ timers # {}) => timers' \subseteq timers]_vars
    /\ [][(Enqueued /\ Posted) => timers' = {}]_vars

\* C10 is reached: execute() has just flushed synchronously a queue of two
\* records, the first of which had scheduled the timer, and no timer is left
C10_Witness ==
    /\ lastReturn.kind = "promise"
    /\ \E x \in 1..Len(exchanges) :
          /\ Len(Batch(x)) >= 2
          /\ Batch(x)[Len(Batch(x))] = lastReturn.id
    /\ timers = {}
    /\ batchTimeout = 0

\* the handle of record id exists and is resolved or rejected
Settled(id) == id <= Len(handles) /\ handles[id].state # "pending"

\* C11: when the flush timer eventually fires and every exchange eventually
\* completes, the handle of every call for which execute() created a record is
\* eventually resolved or rejected, and a handle that is settled never changes
\* again (it is settled exactly once).
C11_EventualSettlement ==
    /\ \A id \in 1..MaxCalls : [](id <= Len(handles) => <>Settled(id))
    /\ [][\A id \in 1..Len(handles) :
             handles[id].state # "pending" => handles'[id] = handles[id]]_vars

\* the params the encoder rejects, once merged over the instance-level params
Unencodable(params) ==
    StringifyCallThrows([method |-> "m", params |-> MergedParams(heap, params).params])

\* C12: an execute() whose params hold an unencodable kind throws to its caller
\* and leaves the queue, the timer and the Transport as they were; so no queue
\* array and no batch ever holds a record the encoder rejects, and every
\* flush of a non-empty queue hands it to the Transport.
C12_UnencodableFailsAtEnqueue ==
    /\ [][\A method \in Methods, params \in ParamChoices :
             (Unencodable(params) /\ Execute(method, params, NoCache, FALSE)) =>
                 /\ lastReturn' = Threw
                 /\ arrays' = arrays /\ queueRef' = queueRef
                 /\ timers' = timers /\ batchTimeout' = batchTimeout
                 /\ exchanges' = exchanges
         ]_vars
    /\ [](\A ref \in 1..Len(arrays) : \A id \in Members(arrays[ref]) :
              Encodable(records, id))
    /\ [][(TimerFired /\ arrays[queueRef] # <<>>) => Posted]_vars

\* C13: an execute() with an empty or non-string method throws to its caller
\* and changes nothing: no record, no handle, no queue array, no timer, no
\* exchange, no cache entry.
C13_InvalidMethodNoEffect ==
    [][ExecuteInvalid =>
          /\ lastReturn' = Threw
          /\ UNCHANGED <<records, handles, arrays, queueRef, batchTimeout, timers,
                         exchanges, cache, heap>>]_vars

\* C13 is reached: execute() has thrown while a call was queued, its timer
\* pending, an exchange in flight and a cache entry live
C13_Witness ==
    /\ lastReturn = Threw
    /\ arrays[queueRef] # <<>>
    /\ timers # {}
    /\ InFlight # {}
    /\ \E key \in CacheKeys : Unexpired(key)

\* A step in which the Transport completed exchange x and its response was parsed
CompletedParsed(x) == exchanges[x].state = "inflight" /\ exchanges'[x].state = "parsed"

\* C14: when the response of an exchange is read, for every index that has an
\* entry, the subscriber calls made for that call's record are exactly those of
\* the subscribers registered for the entry's stat, in registration order,
\* each given that record and that entry, each made while the record's handle
\* is still pending; no subscriber of another tag is called for it.
C14_NotificationOrder ==
    [][\A x \in 1..Len(exchanges) :
          CompletedParsed(x) =>
              \A i \in 1..Len(Batch(x)) :
                  i <= Len(exchanges'[x].entries) =>
                      LET stat == exchanges'[x].entries[i]
                          id == Batch(x)[i]
                          told == SelectSeq(exchanges'[x].notified, LAMBDA n : n.id = id)
                          subs == IF stat \in DOMAIN events THEN events[stat] ELSE <<>>
                      IN  told = [b \in 1..Len(subs) |->
                                     [tag |-> stat, b |-> b, id |-> id, kind |-> "entry",
                                      k |-> i, pending |-> TRUE]]
      ]_vars

\* a subscriber called while the response of exchange x was read has thrown
SubscriberThrew(x) ==
    \E n \in 1..Len(exchanges[x].notified) :
        events[exchanges[x].notified[n].tag][exchanges[x].notified[n].b] = "throws"

\* C15: when a subscriber has thrown while the response of an exchange was
\* read, every call of the batch is still settled by the demultiplex rule: at
\* an index that has an entry, with that entry, rejected if its stat is present
\* and not 'ok' and resolved otherwise; at an index without entry, resolved
\* with the synthesized result.
C15_ThrowingSubscriberStillSettles ==
    \A x \in Parsed :
        SubscriberThrew(x) =>
            \A i \in 1..Len(Batch(x)) :
                IF i <= Len(exchanges[x].entries)
                THEN /\ SettledWithEntry(HandleAt(x, i), x, i)
                     /\ HandleAt(x, i).state =
                           (IF StatPresent(exchanges[x].entries[i])
                               /\ exchanges[x].entries[i] # "ok"
                            THEN "rejected" ELSE "resolved")
                ELSE HandleAt(x, i).state = "resolved" /\ HandleAt(x, i).kind = "synth"

\* A mapping read through the heap h, as the set of its entries: <<key, "", value>>
\* for a primitive, <<key, subkey, value>> for every entry of a nested mapping
Flat(m, h) ==
    {<<k, "", m[k]>> : k \in {j \in DOMAIN m : ~IsRef(m[j])}}
    \cup UNION {{<<k, subkey, h[m[k]][subkey]>> : subkey \in DOMAIN h[m[k]]} :
                  k \in {j \in DOMAIN m : IsRef(m[j])}}

\* the instance-level fixed params as the constructor left them
ConstructedParams == Flat(OptionsNested, HeapOf(OptionsNested))

\* The merge the configuration asks for: the entries of the call's params, and
\* those of the instance-level params the call does not override (a primitive
\* of the call replaces the instance value of its key wholesale, a nested
\* mapping of the call overrides the sub-keys it supplies)
ExpectedMerge(params, h) ==
    Flat(params, h) \cup
    {e \in ConstructedParams :
        \/ e[1] \notin DOMAIN params
        \/ /\ IsRef(params[e[1]])
           /\ e[2] # ""
           /\ e[2] \notin DOMAIN h[params[e[1]]]}

\* C16: no step changes the instance-level fixed params, nested mappings
\* included; and the merged params of every call are the instance-level params
\* as constructed, overridden by what this call supplies: nothing supplied by
\* an earlier call appears in them.
C16_ConfigImmutable ==
    /\ [][Flat(heap'["params"], heap') = Flat(heap["params"], heap)]_vars
    /\ [][\A method \in Methods, params \in MergeChoices :
             Execute(method, params, NoCache, FALSE) =>
                 Flat(records'[Len(records')].params, heap') = ExpectedMerge(params, heap)
         ]_vars

\* C17: a call made with a cache directive finds the entry of its signature
\* live exactly when expiresAt > now: then nothing is enqueued and the entry
\* stays; when expiresAt <= now (equality included) the entry is replaced by
\* one for a new record; an entry created with cache === true expires at
\* Infinity, and no step, lookup or sweep, removes or replaces such an entry.
C17_CacheValidityBoundary ==
    /\ [][Returned =>
           \A method \in Methods, params \in CacheParams,
              config \in ConfigChoices \ {NoCache}, sweep \in BOOLEAN :
             Execute(method, params, config, sweep) =>
                 LET key == CacheKey(method, params)
                 IN  /\ Unexpired(key) => (records' = records /\ cache'[key] = cache[key])
                     /\ (cache[key] # NoEntry /\ ~Unexpired(key)) =>
                            /\ Enqueued
                            /\ cache'[key].promise = Len(records')
                            /\ cache'[key].promise # cache[key].promise
                     /\ (Enqueued /\ config.cache = "true") =>
                            cache'[key].expires = Infinity
         ]_vars
    /\ [][\A key \in CacheKeys :
             (cache[key] # NoEntry /\ cache[key].expires = Infinity) =>
                 cache'[key] = cache[key]]_vars

\* C17 is reached: at instant 1, the instant at which an entry of one second
\* made at instant 0 expires, a call with a cache duration of one second has
\* just been given a new record and a new entry, after an identical earlier call
C17_Witness ==
    /\ now = 1
    /\ Len(records) >= 2
    /\ lastReturn = PromiseReturn(Len(records))
    /\ records[1] = records[Len(records)]
    /\ \E key \in CacheKeys :
          cache[key] = [expires |-> (now + 1) * MsPerSec, promise |-> Len(records)]

\* the cache c without the entries that are expired at the clock's instant
LiveAt(c) ==
    [key \in DOMAIN c |->
        IF c[key] # NoEntry /\ c[key].expires > now * MsPerSec THEN c[key] ELSE NoEntry]

\* C18: what the sweep removes is expired for a lookup at this and at every
\* later instant; and every execute(), whether its sweep ran or not, does to
\* the records, the handles, the queue, the timer and the Transport, and
\* returns to its caller, what it would have done on the cache as no sweep
\* left it and on the cache swept of every expired entry, and leaves the same
\* unexpired entries as in both.
C18_SweepIndependence ==
    /\ [](\A key \in CacheKeys : \A later \in now..MaxClock :
              Sweep(cache, GetTime)[key] # cache[key] =>
                  ~CacheLive(cache[key], later * MsPerSec))
    /\ [][Returned =>
           \A method \in Methods, params \in CacheParams, config \in ConfigChoices,
              sweep \in BOOLEAN :
             Execute(method, params, config, sweep) =>
                 /\ ExecuteEffect(method, params, config, cache)
                 /\ ExecuteEffect(method, params, config, LiveAt(cache))
                 /\ LiveAt(cache') = LiveAt(ExecuteCache(method, params, config, cache))
                 /\ LiveAt(cache') =
                        LiveAt(ExecuteCache(method, params, config, LiveAt(cache)))
         ]_vars

\* C18 is reached: execute() has just served a hit while the cache holds
\* another entry that has expired and that a sweep would remove
C18_Witness ==
    /\ lastReturn.kind = "entry"
    /\ Sweep(cache, GetTime) # cache
    /\ \E key \in CacheKeys : Unexpired(key) /\ lastReturn = HitReturn(cache[key])

\* the keys written in the line of the i-th call of the batch of exchange x
KeysWritten(x, i) == {pair[1] : pair \in exchanges[x].body[i].pairs}

\* C19 as claimed: in the line of every call sent, a parameter whose value is
\* an explicit null or undefined is written as the pair key= with the empty
\* value.
C19_NullWrittenEmpty ==
    \A x \in 1..Len(exchanges) : \A i \in 1..Len(Batch(x)) :
        \A k \in DOMAIN records[Batch(x)[i]].params :
            records[Batch(x)[i]].params[k] \in {"null", "undef"} =>
                <<k, "">> \in exchanges[x].body[i].pairs

\* C19 as amended: in the line of every call sent, a parameter whose value is
\* undefined is written as the pair key= with the empty value, and a
\* parameter whose value is an explicit null is left out of the line: no pair
\* is written for its key.
C19_NullOmittedUndefinedEmpty ==
    \A x \in 1..Len(exchanges) : \A i \in 1..Len(Batch(x)) :
        \A k \in DOMAIN records[Batch(x)[i]].params :
            /\ records[Batch(x)[i]].params[k] = "undef" =>
                  <<k, "">> \in exchanges[x].body[i].pairs
            /\ records[Batch(x)[i]].params[k] = "null" => k \notin KeysWritten(x, i)

\* C19 is reached: a call with a param that is null and one that is undefined
\* was sent in a batch of two calls
C19_Witness ==
    \E x \in 1..Len(exchanges) :
        /\ Len(Batch(x)) >= 2
        /\ \E i \in 1..Len(Batch(x)) :
              /\ "x" \in DOMAIN records[Batch(x)[i]].params
              /\ "y" \in DOMAIN records[Batch(x)[i]].params
              /\ records[Batch(x)[i]].params["x"] = "null"
              /\ records[Batch(x)[i]].params["y"] = "undef"

\* the positions of record id in a queue array
PositionsOf(queue, id) == {i \in 1..Len(queue) : queue[i] = id}

\* this step completes exchange x: its callbacks run
Completes(x) == exchanges[x].state = "inflight" /\ exchanges'[x].state # "inflight"

\* C20: each record is consumed at most once. No record is in more than one
\* batch handed to the Transport, nor twice in one batch; a record that was
\* handed to the Transport is not in the queue again; the batch of an exchange
\* never changes after the post and an exchange completes once; and a handle
\* is settled once, and the handle of a carried record only by the step that
\* completes the one exchange that carries it.
C20_ConsumedAtMostOnce ==
    /\ [](\A id \in 1..Len(records) :
            /\ Cardinality(Carriers(id)) <= 1
            /\ \A x \in Carriers(id) : Cardinality(PositionsOf(Batch(x), id)) = 1
            /\ Cardinality(PositionsOf(arrays[queueRef], id)) <= 1
            /\ id \in Members(arrays[queueRef]) => Carriers(id) = {})
    /\ [][/\ \A x \in 1..Len(exchanges) :
               /\ arrays'[exchanges'[x].q] = arrays[exchanges[x].q]
               /\ exchanges[x].state # "inflight" => exchanges'[x] = exchanges[x]
          /\ \A id \in 1..Len(handles) :
               handles'[id] # handles[id] =>
                   /\ handles[id].state = "pending"
                   /\ \A x \in Carriers(id) : Completes(x)]_vars

\* C20 is reached: two exchanges with a batch each have completed, one of
\* them with two records, and every record is settled
C20_Witness ==
    /\ Len(records) = MaxCalls
    /\ \A id \in 1..Len(records) : handles[id].state # "pending" /\ Carriers(id) # {}
    /\ \E x, y \in 1..Len(exchanges) :
          /\ x # y
          /\ exchanges[x].state # "inflight" /\ exchanges[y].state # "inflight"
          /\ Len(Batch(x)) >= 2 /\ Len(Batch(y)) >= 1

\* the entry of key holds a promise that was rejected
RejectedEntry(key) ==
    cache[key] # NoEntry /\ handles[cache[key].promise].state = "rejected"

\* C21: a failed outcome stays cached. While the entry of a rejected promise
\* is unexpired no step removes or changes it; an identical cached call made
\* then enqueues nothing, causes no exchange and gets the rejected promise of
\* the entry; and a cached call with the signature of a rejected entry
\* enqueues a record only when the entry has expired.
C21_FailureStaysCached ==
    [][/\ \A key \in CacheKeys :
            (RejectedEntry(key) /\ Unexpired(key)) => cache'[key] = cache[key]
       /\ \A method \in Methods, params \in CacheParams,
             config \in ConfigChoices \ {NoCache}, sweep \in BOOLEAN :
             (Execute(method, params, config, sweep)
                 /\ RejectedEntry(CacheKey(method, params))) =>
                 IF Unexpired(CacheKey(method, params))
                 THEN /\ NothingEnqueued
                      /\ handles' = handles
                      /\ lastReturn' = PromiseReturn(cache[CacheKey(method, params)].promise)
                 ELSE Enqueued
      ]_vars

====
